---- MODULE Spec2Model ----
(***************************************************************************)
(* PostsManager (src/src/views/AboutView.vue): a Vue view over a local     *)
(* PouchDB store that live-replicates with a remote store.                 *)
(*                                                                         *)
(* Every `await` of the component splits a method into steps.  A step that *)
(* issues a store call applies the call to the store and keeps its outcome *)
(* in the pending task; a later step resumes the method with that outcome. *)
(* Between the two, any other handler of the single UI thread may run.     *)
(*                                                                         *)
(* Text is kept as (leading blanks, length of the trimmed text, trailing   *)
(* blanks): what String.prototype.trim and .length depend on.  Timestamps  *)
(* are clock readings; toISOString is monotone and injective on them, and  *)
(* new Date(iso).getTime() is its inverse.                                 *)
(***************************************************************************)
EXTENDS Integers, Sequences, FiniteSets

\* ---------------------------------------------------------------- bounds
\* Submits, deletions, dismissals, teardowns, session events, store failures
\* and ticks of the clock in one run.
MaxEvents == 2
\* Methods suspended at an await at the same time.
MaxTasks == 2
\* Documents an earlier session left in the local store.
MaxPosts == 21

\* ------------------------------------------------------- program constants
pageSize == 10
MaxTitleLen == 100
MaxContentLen == 1000

\* ------------------------------------------------------------------- text
Str(l, n, t) == [lead |-> l, core |-> n, trail |-> t]

Empty == Str(0, 0, 0)

StrLen(s) == s.lead + s.core + s.trail

\* String.prototype.trim: a text of blanks only trims to the empty text.
Trim(s) == Str(0, s.core, 0)

\* JavaScript truthiness of a string: only "" is falsy.
Truthy(s) == StrLen(s) > 0

\* What the user can type into the title input: maxlength="100" stops the
\* third text.
TypedTitles == { s \in {Str(1, 0, 0), Str(1, 98, 1), Str(1, 99, 1)} :
                   StrLen(s) <= MaxTitleLen }

\* What the user can type into the content textarea: maxlength="1000" stops
\* the third text.
TypedContents == { s \in {Str(1, 0, 0), Str(0, 1000, 0), Str(0, 1001, 0)} :
                     StrLen(s) <= MaxContentLen }

\* Documents other replicas wrote: the remote store validates nothing.
RemoteTexts == { [title |-> Str(0, 3, 0), content |-> Str(0, 3, 0)],
                 [title |-> Str(0, 101, 0), content |-> Str(0, 3, 0)],
                 [title |-> Str(0, 3, 0), content |-> Str(0, 1001, 0)] }

\* ----------------------------------------------------------------- errors
Null == "null"
ErrDenied == "Acces refuse a la base de donnees"
ErrSync == "Erreur de synchronisation"
ErrInit == "Erreur d'initialisation"
ErrFetch == "Erreur lors de la recuperation des posts"
ErrRequired == "Le titre et le contenu sont requis"
ErrTitleLen == "Le titre ne doit pas depasser 100 caracteres"
ErrContentLen == "Le contenu ne doit pas depasser 1000 caracteres"
ErrAdd == "Erreur lors de l'ajout du post"
ErrDelete == "Erreur lors de la suppression du post"
ErrUpdate == "Erreur lors de la mise a jour du post"

\* ------------------------------------------------------------------ store
\* Ids are timestamps: the ids from 1 on are those this run can generate, the
\* ids up to 0 were generated before it, by earlier sessions or other
\* replicas.  RemoteId is the id of the document the session may pull in.
RemoteId == 0
NoId == 1 - 1000

\* The store maps every id ever written to its current revision; a removed
\* document stays as a tombstone that carries a new revision.
NoDoc == [rev |-> 0, deleted |-> TRUE, title |-> Empty, content |-> Empty,
          attributes |-> [creation_date |-> 0, modified |-> 0]]

Slot(st, id) == IF id \in DOMAIN st THEN st[id] ELSE NoDoc

Live(st, id) == id \in DOMAIN st /\ ~st[id].deleted

\* A document as the store hands it out (Post, with _id and _rev).
NoPost == [_id |-> NoId, _rev |-> 0, title |-> Empty, content |-> Empty,
           attributes |-> [creation_date |-> 0, modified |-> 0]]

ToPost(st, id) == [_id |-> id, _rev |-> st[id].rev, title |-> st[id].title,
                   content |-> st[id].content, attributes |-> st[id].attributes]

Write(st, id, d) == [i \in DOMAIN st \cup {id} |-> IF i = id THEN d ELSE st[i]]

\* get(id) -> Post | NotFound
GetStatus(st, id) == IF Live(st, id) THEN "ok" ELSE "NotFound"

StoreGet(st, id) == IF Live(st, id) THEN ToPost(st, id) ELSE NoPost

\* put(post) -> new revision | Conflict: a post without _rev creates, and is
\* refused while a live document has its id; a post with _rev must carry the
\* current revision.
PutStatus(st, post) ==
  IF post._rev = 0
  THEN IF Live(st, post._id) THEN "Conflict" ELSE "ok"
  ELSE IF Slot(st, post._id).rev = post._rev THEN "ok" ELSE "Conflict"

StorePut(st, post) ==
  Write(st, post._id, [rev |-> Slot(st, post._id).rev + 1, deleted |-> FALSE,
                       title |-> post.title, content |-> post.content,
                       attributes |-> post.attributes])

\* remove(id, revision) -> ok | Conflict | NotFound
RemoveStatus(st, id, rev) ==
  IF id \notin DOMAIN st THEN "NotFound"
  ELSE IF st[id].rev = rev THEN "ok" ELSE "Conflict"

StoreRemove(st, id) == Write(st, id, [NoDoc EXCEPT !.rev = Slot(st, id).rev + 1])

MinOf(S) == CHOOSE x \in S : \A y \in S : x <= y

\* allDocs({include_docs: true}): the live documents, in the order of their ids.
RECURSIVE RowsOf(_, _)
RowsOf(st, S) ==
  IF S = {} THEN <<>>
  ELSE LET m == MinOf(S) IN <<ToPost(st, m)>> \o RowsOf(st, S \ {m})

AllDocs(st) == RowsOf(st, {i \in DOMAIN st : ~st[i].deleted})


VARIABLES
  localDb, remoteDb,                \* the handles: "null" | "open" | "closed"
  sync,                             \* the session: "null" | "live" | "cancelled"
  posts, newPost, isEditing, currentEditId, error, isLoading, currentPage,
  store,                            \* the documents of the local store
  now,                              \* the last reading of the clock
  tasks,                            \* the methods suspended at an await
  pendingChanges,                   \* writes of the session not yet announced by 'change'
  events,                           \* the events of the run counted so far (see MaxEvents)
  editRev,                          \* history: while editing, the stored revision of the post when startEditing ran
  phase                             \* "created" | "mounted" | "unmounted"

vars == <<localDb, remoteDb, sync, posts, newPost, isEditing, currentEditId, error,
          isLoading, currentPage, store, now, tasks, pendingChanges, events, editRev, phase>>

handles == <<localDb, remoteDb, sync, phase>>

editing == <<newPost, isEditing, currentEditId, editRev>>

\* --------------------------------------------------------------- computed
\* Array.prototype.sort with the comparator b.creation_date - a.creation_date:
\* a stable sort, newest first.
RECURSIVE InsertSorted(_, _)
InsertSorted(p, sorted) ==
  IF sorted = <<>> THEN <<p>>
  ELSE IF Head(sorted).attributes.creation_date < p.attributes.creation_date
       THEN <<p>> \o sorted
       ELSE <<Head(sorted)>> \o InsertSorted(p, Tail(sorted))

RECURSIVE SortDesc(_)
SortDesc(ps) ==
  IF ps = <<>> THEN <<>>
  ELSE InsertSorted(ps[Len(ps)], SortDesc(SubSeq(ps, 1, Len(ps) - 1)))

sortedPosts == SortDesc(posts)

Min2(a, b) == IF a < b THEN a ELSE b

\* Array.prototype.slice(start, end) on 0-based indexes, clamped to the length.
Slice(seq, start, end) == SubSeq(seq, Min2(start, Len(seq)) + 1, Min2(end, Len(seq)))

\* paginatedPosts with start = currentPage * pageSize.
PageOf_OffByOne(page) == Slice(sortedPosts, page * pageSize, page * pageSize + pageSize)

PageOf(page) == Slice(sortedPosts, (page - 1) * pageSize, (page - 1) * pageSize + pageSize)

paginatedPosts == PageOf(currentPage)

\* Math.ceil(posts.length / pageSize)
totalPages == (Len(posts) + pageSize - 1) \div pageSize

\* ------------------------------------------------------------------ tasks
Slots == 1..MaxTasks

Free == [pc |-> "free", id |-> NoId, form |-> NoPost, baseRev |-> 0, status |-> "none",
         doc |-> NoPost, rows |-> <<>>]

HasFree == \E s \in Slots : tasks[s].pc = "free"

FreeSlot == MinOf({s \in Slots : tasks[s].pc = "free"})

Suspend(s, t) == tasks' = [tasks EXCEPT ![s] = t]

Finish(s) == tasks' = [tasks EXCEPT ![s] = Free]

Failed(t) == t.status \notin {"ok", "none"}

\* The answers a call can get when the store would answer `status`: a closed
\* handle refuses every call; an open one may fail, which is an event of the
\* run (`spent` events are already counted in the step).
Outcomes(handle, status, spent) ==
  IF handle # "open" THEN {"Error"}
  ELSE {status} \cup (IF events + spent < MaxEvents THEN {"Error"} ELSE {})

Fault(handle, st) == IF handle = "open" /\ st = "Error" THEN 1 ELSE 0

\* ----------------------------------------------------------------- clock
\* new Date().toISOString(): a reading of a clock that never runs backwards.
\* `prev` is the reading before it; every tick since `now` is an event of the
\* run, of which the step has counted `spent` others.
createTimestamp(prev, spent) == prev..(now + (MaxEvents - events - spent))

\* ------------------------------------------------------------------- init
\* The creation dates of the documents of earlier sessions: in the order of
\* the ids, all equal, or mixed with ties.
OldDate(i, pattern) ==
  IF pattern = 1 THEN i ELSE IF pattern = 2 THEN 0 ELSE 0 - ((0 - i) % 3)

\* A local store that holds n valid documents when the view is created.
OldStore(n, pattern) ==
  [i \in (1 - n)..0 |->
     [rev |-> 1, deleted |-> FALSE, title |-> Str(0, 3, 0), content |-> Str(0, 3, 0),
      attributes |-> [creation_date |-> OldDate(i, pattern),
                      modified |-> OldDate(i, pattern)]]]

\* data(): the component as created, over the store `st`.
Created(st) ==
  /\ localDb = "null" /\ remoteDb = "null" /\ sync = "null"
  /\ posts = <<>>
  /\ newPost = [title |-> Empty, content |-> Empty]
  /\ isEditing = FALSE
  /\ currentEditId = NoId
  /\ error = Null
  /\ isLoading = FALSE
  /\ currentPage = 1
  /\ store = st
  /\ now = 1
  /\ tasks = [s \in Slots |-> Free]
  /\ pendingChanges = 0
  /\ events = 0
  /\ editRev = 0
  /\ phase = "created"

Init == \E n \in 0..1 : Created(OldStore(n, 1))

\* The view created over a store of up to MaxPosts documents.
PagesInit == \E n \in 0..MaxPosts : \E pattern \in 1..3 : Created(OldStore(n, pattern))

\* mounted(): initDatabases() up to `await this.remoteDb.info()`.
Mount ==
  /\ phase = "created"
  /\ phase' = "mounted"
  /\ localDb' = "open"
  /\ remoteDb' = "open"
  /\ Suspend(FreeSlot, [Free EXCEPT !.pc = "init_info"])
  /\ UNCHANGED <<sync, posts, editing, error, isLoading, currentPage, store, now,
                 pendingChanges, events>>

\* fetchPosts() up to `await this.localDb.allDocs(...)`, as task s.
fetchPosts(s, pc, spent) ==
  \E st \in Outcomes(localDb, "ok", spent) :
    /\ isLoading' = TRUE
    /\ events' = events + spent + Fault(localDb, st)
    /\ Suspend(s, [tasks[s] EXCEPT !.pc = pc, !.status = st,
                                   !.rows = IF st = "ok" THEN AllDocs(store) ELSE <<>>])

\* fetchPosts() from the answer of allDocs to its end: what it leaves in
\* posts and in error (isLoading is reset in the finally block).
FetchedPosts(t) == IF t.status = "ok" THEN t.rows ELSE posts

FetchedError(t) == IF t.status = "ok" THEN Null ELSE ErrFetch

\* initDatabases starting the session without waiting for the probe.
InitAfterInfo_SyncFirst(s) ==
  /\ tasks[s].pc = "init_info"
  /\ sync' = "live"
  /\ \/ /\ fetchPosts(s, "init_fetch", 0)
        /\ UNCHANGED error
     \/ /\ events < MaxEvents
        /\ events' = events + 1
        /\ error' = ErrInit
        /\ Finish(s)
        /\ UNCHANGED isLoading
  /\ UNCHANGED <<localDb, remoteDb, phase, posts, editing, currentPage, store, now,
                 pendingChanges>>

\* initDatabases() from the answer of info(): start the session and fetch, or
\* report the failure.
InitAfterInfo(s) ==
  /\ tasks[s].pc = "init_info"
  /\ \/ /\ sync' = "live"
        /\ fetchPosts(s, "init_fetch", 0)
        /\ UNCHANGED error
     \/ /\ events < MaxEvents
        /\ events' = events + 1
        /\ error' = ErrInit
        /\ Finish(s)
        /\ UNCHANGED <<sync, isLoading>>
  /\ UNCHANGED <<localDb, remoteDb, phase, posts, editing, currentPage, store, now,
                 pendingChanges>>

\* The end of a fetchPosts() that initDatabases or the change handler called.
FetchResume(s) ==
  /\ tasks[s].pc \in {"init_fetch", "chg_fetch"}
  /\ posts' = FetchedPosts(tasks[s])
  /\ error' = FetchedError(tasks[s])
  /\ isLoading' = FALSE
  /\ Finish(s)
  /\ UNCHANGED <<handles, editing, currentPage, store, now, pendingChanges, events>>

\* ------------------------------------------------------------- validation
\* validatePost without its two length checks.
validatePost_NoLimits(post) ==
  IF ~Truthy(Trim(post.title)) \/ ~Truthy(Trim(post.content)) THEN ErrRequired ELSE Null

\* validatePost testing the texts as they are, without trim.
validatePost_NoTrim(post) ==
  IF ~Truthy(post.title) \/ ~Truthy(post.content) THEN ErrRequired
  ELSE IF StrLen(post.title) > MaxTitleLen THEN ErrTitleLen
  ELSE IF StrLen(post.content) > MaxContentLen THEN ErrContentLen
  ELSE Null

\* validatePost(post): the message it sets, Null when it returns true.
validatePost(post) ==
  IF ~Truthy(Trim(post.title)) \/ ~Truthy(Trim(post.content)) THEN ErrRequired
  ELSE IF StrLen(post.title) > MaxTitleLen THEN ErrTitleLen
  ELSE IF StrLen(post.content) > MaxContentLen THEN ErrContentLen
  ELSE Null

\* The "x" of the error alert.
DismissError ==
  /\ phase = "mounted"
  /\ error # Null
  /\ events < MaxEvents
  /\ events' = events + 1
  /\ error' = Null
  /\ UNCHANGED <<handles, posts, editing, isLoading, currentPage, store, now, tasks,
                 pendingChanges>>

\* ---------------------------------------------------------------- create
\* The document addPost builds from the form and three readings of the clock.
NewPost(form, t1, t2, t3) ==
  [_id |-> t1, _rev |-> 0, title |-> Trim(form.title), content |-> Trim(form.content),
   attributes |-> [creation_date |-> t2, modified |-> t3]]

\* addPost() up to `await this.localDb.put(post)`, as task s; `form` is
\* this.newPost as v-model left it.
addPost(s, form) ==
  IF ~Truthy(Trim(form.title)) \/ ~Truthy(Trim(form.content))
  THEN /\ events' = events + 1
       /\ UNCHANGED <<error, store, now, tasks>>
  ELSE \E t1 \in createTimestamp(now, 1) : \E t2 \in createTimestamp(t1, 1) :
       \E t3 \in createTimestamp(t2, 1) :
         LET post == NewPost(form, t1, t2, t3)
             spent == 1 + (t3 - now) IN
         /\ now' = t3
         /\ IF validatePost(post) # Null
            THEN /\ error' = validatePost(post)
                 /\ events' = events + spent
                 /\ UNCHANGED <<store, tasks>>
            ELSE /\ \E st \in Outcomes(localDb, PutStatus(store, post), spent) :
                      /\ store' = IF st = "ok" THEN StorePut(store, post) ELSE store
                      /\ events' = events + spent + Fault(localDb, st)
                      /\ Suspend(s, [Free EXCEPT !.pc = "add_put", !.id = t1,
                                                 !.form = post, !.status = st])
                 /\ UNCHANGED error

\* addPost clearing the form before it looks at the answer of put.
AddAfterPut_ClearFirst(s) ==
  /\ tasks[s].pc = "add_put"
  /\ newPost' = [title |-> Empty, content |-> Empty]
  /\ IF Failed(tasks[s])
     THEN /\ error' = ErrAdd
          /\ Finish(s)
          /\ UNCHANGED <<isLoading, events>>
     ELSE /\ fetchPosts(s, "add_fetch", 0)
          /\ UNCHANGED error
  /\ UNCHANGED <<handles, posts, isEditing, currentEditId, editRev, currentPage, store, now,
                 pendingChanges>>

\* addPost() from the answer of put: clear the form and fetch, or report.
AddAfterPut(s) ==
  /\ tasks[s].pc = "add_put"
  /\ IF Failed(tasks[s])
     THEN /\ error' = ErrAdd
          /\ Finish(s)
          /\ UNCHANGED <<newPost, isLoading, events>>
     ELSE /\ newPost' = [title |-> Empty, content |-> Empty]
          /\ fetchPosts(s, "add_fetch", 0)
          /\ UNCHANGED error
  /\ UNCHANGED <<handles, posts, isEditing, currentEditId, editRev, currentPage, store, now,
                 pendingChanges>>

\* addPost() from the end of its fetchPosts(): `this.error = null`.
AddAfterFetch(s) ==
  /\ tasks[s].pc = "add_fetch"
  /\ posts' = FetchedPosts(tasks[s])
  /\ isLoading' = FALSE
  /\ error' = Null
  /\ Finish(s)
  /\ UNCHANGED <<handles, editing, currentPage, store, now, pendingChanges, events>>

\* ---------------------------------------------------------------- update
\* The object the form's submit handler passes to updatePost while editing.
PartialPost(form, t1, t2) ==
  [_id |-> currentEditId, _rev |-> 0, title |-> form.title, content |-> form.content,
   attributes |-> [creation_date |-> t1, modified |-> t2]]

\* updatePost stamping both dates of the document it writes.
UpdatedPost_NewDates(existingDoc, partialPost, m) ==
  [existingDoc EXCEPT
     !.title = IF Truthy(partialPost.title) THEN partialPost.title ELSE existingDoc.title,
     !.content = IF Truthy(partialPost.content) THEN partialPost.content
                 ELSE existingDoc.content,
     !.attributes = [creation_date |-> m, modified |-> m]]

\* The document updatePost builds: the stored one with the form's title and
\* content (`||` keeps the stored text when the form's is "") and a new modified.
UpdatedPost(existingDoc, partialPost, m) ==
  [existingDoc EXCEPT
     !.title = IF Truthy(partialPost.title) THEN partialPost.title ELSE existingDoc.title,
     !.content = IF Truthy(partialPost.content) THEN partialPost.content
                 ELSE existingDoc.content,
     !.attributes = [existingDoc.attributes EXCEPT !.modified = m]]

\* updatePost(partialPost) up to `await this.localDb.get(partialPost._id)`.
\* The task keeps of partialPost what updatePost reads after the await: its
\* _id, title and content.
updatePost(s, partialPost, spent) ==
  IF partialPost._id = NoId
  THEN /\ events' = events + spent
       /\ UNCHANGED tasks
  ELSE \E st \in Outcomes(localDb, GetStatus(store, partialPost._id), spent) :
         /\ events' = events + spent + Fault(localDb, st)
         /\ Suspend(s, [Free EXCEPT !.pc = "upd_get", !.id = partialPost._id,
                                    !.form = [partialPost EXCEPT
                                                !.attributes = NoPost.attributes],
                                    !.baseRev = editRev,
                                    !.status = st,
                                    !.doc = IF st = "ok"
                                            THEN StoreGet(store, partialPost._id)
                                            ELSE NoPost])

\* updatePost() from the answer of get: build, validate and put, or report.
UpdateAfterGet(s) ==
  /\ tasks[s].pc = "upd_get"
  /\ IF Failed(tasks[s])
     THEN /\ error' = ErrUpdate
          /\ Finish(s)
          /\ UNCHANGED <<store, now, events>>
     ELSE \E m \in createTimestamp(now, 0) :
            LET updatedPost == UpdatedPost(tasks[s].doc, tasks[s].form, m)
                spent == m - now IN
            /\ now' = m
            /\ IF validatePost(updatedPost) # Null
               THEN /\ error' = validatePost(updatedPost)
                    /\ events' = events + spent
                    /\ Finish(s)
                    /\ UNCHANGED store
               ELSE /\ \E st \in Outcomes(localDb, PutStatus(store, updatedPost), spent) :
                         /\ store' = IF st = "ok" THEN StorePut(store, updatedPost)
                                     ELSE store
                         /\ events' = events + spent + Fault(localDb, st)
                         /\ Suspend(s, [tasks[s] EXCEPT !.pc = "upd_put", !.status = st,
                                                        !.doc = updatedPost])
                    /\ UNCHANGED error
  /\ UNCHANGED <<handles, posts, editing, isLoading, currentPage, pendingChanges>>

\* updatePost leaving the edit mode whatever put answered.
UpdateAfterPut_AlwaysLeave(s) ==
  /\ tasks[s].pc = "upd_put"
  /\ isEditing' = FALSE
  /\ currentEditId' = NoId
  /\ newPost' = [title |-> Empty, content |-> Empty]
  /\ editRev' = 0
  /\ IF Failed(tasks[s])
     THEN /\ error' = ErrUpdate
          /\ Finish(s)
          /\ UNCHANGED <<isLoading, events>>
     ELSE /\ fetchPosts(s, "upd_fetch", 0)
          /\ UNCHANGED error
  /\ UNCHANGED <<handles, posts, currentPage, store, now, pendingChanges>>

\* updatePost() from the answer of put: leave editing and fetch, or report.
UpdateAfterPut(s) ==
  /\ tasks[s].pc = "upd_put"
  /\ IF Failed(tasks[s])
     THEN /\ error' = ErrUpdate
          /\ Finish(s)
          /\ UNCHANGED <<newPost, isEditing, currentEditId, editRev, isLoading, events>>
     ELSE /\ isEditing' = FALSE
          /\ currentEditId' = NoId
          /\ newPost' = [title |-> Empty, content |-> Empty]
          /\ editRev' = 0
          /\ fetchPosts(s, "upd_fetch", 0)
          /\ UNCHANGED error
  /\ UNCHANGED <<handles, posts, currentPage, store, now, pendingChanges>>

\* updatePost() from the end of its fetchPosts(): `this.error = null`.
UpdateAfterFetch(s) ==
  /\ tasks[s].pc = "upd_fetch"
  /\ posts' = FetchedPosts(tasks[s])
  /\ isLoading' = FALSE
  /\ error' = Null
  /\ Finish(s)
  /\ UNCHANGED <<handles, editing, currentPage, store, now, pendingChanges, events>>

\* What the form can hold at a submit: each field as it stands or as typed.
Forms == [title : {newPost.title} \cup TypedTitles,
          content : {newPost.content} \cup TypedContents]

\* The form's @submit.prevent, after v-model put `form` into newPost.  The
\* browser fires it only while the submit button is enabled and both
\* `required` fields hold text.
Submit(form) ==
  /\ phase = "mounted"
  /\ ~isLoading
  /\ Truthy(form.title) /\ Truthy(form.content)
  /\ HasFree
  /\ events < MaxEvents
  /\ newPost' = form
  /\ IF isEditing
     THEN /\ \E t1 \in createTimestamp(now, 1) : \E t2 \in createTimestamp(t1, 1) :
               /\ now' = t2
               /\ updatePost(FreeSlot, PartialPost(form, t1, t2), 1 + (t2 - now))
          /\ UNCHANGED <<error, store>>
     ELSE addPost(FreeSlot, form)
  /\ UNCHANGED <<handles, posts, isEditing, currentEditId, editRev, isLoading, currentPage,
                 pendingChanges>>

\* ---------------------------------------------------------------- delete
\* deletePost removing whatever revision the store holds.
RemoveRev_Latest(post) == Slot(store, post._id).rev

\* The revision deletePost passes to remove: `post._rev as string`.
RemoveRev(post) == post._rev

\* deletePost(post) up to `await this.localDb.remove(post._id, post._rev)`.
deletePost(post) ==
  /\ phase = "mounted"
  /\ ~isLoading
  /\ HasFree
  /\ events < MaxEvents
  /\ post._id # NoId
  /\ isLoading' = TRUE
  /\ \E st \in Outcomes(localDb, RemoveStatus(store, post._id, RemoveRev(post)), 1) :
       /\ store' = IF st = "ok" THEN StoreRemove(store, post._id) ELSE store
       /\ events' = events + 1 + Fault(localDb, st)
       /\ Suspend(FreeSlot, [Free EXCEPT !.pc = "del_remove", !.id = post._id,
                                         !.baseRev = post._rev, !.status = st])
  /\ UNCHANGED <<handles, posts, editing, error, currentPage, now, pendingChanges>>

\* deletePost() from the answer of remove: fetch, or report.
DeleteAfterRemove(s) ==
  /\ tasks[s].pc = "del_remove"
  /\ IF Failed(tasks[s])
     THEN /\ error' = ErrDelete
          /\ isLoading' = FALSE
          /\ Finish(s)
          /\ UNCHANGED events
     ELSE /\ fetchPosts(s, "del_fetch", 0)
          /\ UNCHANGED error
  /\ UNCHANGED <<handles, posts, editing, currentPage, store, now, pendingChanges>>

\* deletePost() from the end of its fetchPosts(): `this.error = null`, finally.
DeleteAfterFetch(s) ==
  /\ tasks[s].pc = "del_fetch"
  /\ posts' = FetchedPosts(tasks[s])
  /\ error' = Null
  /\ isLoading' = FALSE
  /\ Finish(s)
  /\ UNCHANGED <<handles, editing, currentPage, store, now, pendingChanges, events>>

\* --------------------------------------------------------------- editing
\* The posts of the cards on the page: v-for="post in paginatedPosts".
PostsShown == LET shown == paginatedPosts IN {shown[i] : i \in DOMAIN shown}

startEditing(post) ==
  /\ phase = "mounted"
  /\ ~isLoading
  /\ isEditing' = TRUE
  /\ currentEditId' = post._id
  /\ newPost' = [title |-> post.title, content |-> post.content]
  /\ editRev' = Slot(store, post._id).rev
  /\ UNCHANGED <<handles, posts, error, isLoading, currentPage, store, now, tasks,
                 pendingChanges, events>>

cancelEditing ==
  /\ phase = "mounted"
  /\ isEditing
  /\ ~isLoading
  /\ isEditing' = FALSE
  /\ currentEditId' = NoId
  /\ newPost' = [title |-> Empty, content |-> Empty]
  /\ editRev' = 0
  /\ UNCHANGED <<handles, posts, error, isLoading, currentPage, store, now, tasks,
                 pendingChanges, events>>

\* changePage without the test page >= 1.
changePage_NoLowerBound(page) ==
  /\ currentPage' = IF page <= totalPages THEN page ELSE currentPage
  /\ UNCHANGED <<handles, posts, editing, error, isLoading, store, now, tasks,
                 pendingChanges, events>>

\* changePage(page)
changePage(page) ==
  /\ currentPage' = IF page >= 1 /\ page <= totalPages THEN page ELSE currentPage
  /\ UNCHANGED <<handles, posts, editing, error, isLoading, store, now, tasks,
                 pendingChanges, events>>

\* The "Precedent" button: shown while totalPages > 1, disabled on page 1.
ClickPrevious ==
  /\ phase = "mounted"
  /\ totalPages > 1
  /\ ~(currentPage = 1 \/ isLoading)
  /\ changePage(currentPage - 1)

\* The "Suivant" button: shown while totalPages > 1, disabled on the last page.
ClickNext ==
  /\ phase = "mounted"
  /\ totalPages > 1
  /\ ~(currentPage = totalPages \/ isLoading)
  /\ changePage(currentPage + 1)

\* A call of the method changePage with any page number, from one below the
\* first page to one above the last.
CallChangePage ==
  /\ phase = "mounted"
  /\ \E page \in 0..(totalPages + 1) : changePage(page)

\* --------------------------------------------------------------- teardown
Close(handle) == IF handle = "null" THEN "null" ELSE "closed"

beforeUnmount ==
  /\ phase = "mounted"
  /\ phase' = "unmounted"
  /\ events < MaxEvents
  /\ events' = events + 1
  /\ sync' = IF sync = "live" THEN "cancelled" ELSE sync
  /\ localDb' = Close(localDb)
  /\ remoteDb' = Close(remoteDb)
  /\ UNCHANGED <<posts, editing, error, isLoading, currentPage, store, now, tasks,
                 pendingChanges>>

\* ------------------------------------------------------------ replication
LiveIds(st) == {i \in DOMAIN st : ~st[i].deleted}

\* What the session may write into the local store: a document of another
\* replica, a newer version of a live document, or the removal of one.
RepWrites(st) ==
  { Write(st, RemoteId, [rev |-> Slot(st, RemoteId).rev + 1, deleted |-> FALSE,
                         title |-> x.title, content |-> x.content,
                         attributes |-> [creation_date |-> RemoteId, modified |-> RemoteId]]) :
      x \in {y \in RemoteTexts : ~Live(st, RemoteId)} }
  \cup
  { Write(st, i[1], [st[i[1]] EXCEPT !.rev = @ + 1, !.title = i[2].title,
                                     !.content = i[2].content,
                                     !.attributes.modified = now]) :
      i \in LiveIds(st) \X RemoteTexts }
  \cup
  { StoreRemove(st, i) : i \in LiveIds(st) }

\* The live session pulls a change into the local store.
RepWrite ==
  /\ sync = "live"
  /\ localDb = "open"
  /\ events < MaxEvents
  /\ events' = events + 1
  /\ \E st \in RepWrites(store) : store' = st
  /\ pendingChanges' = 1
  /\ UNCHANGED <<handles, posts, editing, error, isLoading, currentPage, now, tasks>>

\* .on('change'): the handler calls fetchPosts().
SyncChange ==
  /\ sync = "live"
  /\ pendingChanges > 0
  /\ HasFree
  /\ pendingChanges' = 0
  /\ fetchPosts(FreeSlot, "chg_fetch", 0)
  /\ UNCHANGED <<handles, posts, editing, error, currentPage, store, now>>

\* .on('denied')
SyncDenied ==
  /\ sync = "live"
  /\ events < MaxEvents
  /\ events' = events + 1
  /\ error' = ErrDenied
  /\ UNCHANGED <<handles, posts, editing, isLoading, currentPage, store, now, tasks,
                 pendingChanges>>

\* .on('error')
SyncError ==
  /\ sync = "live"
  /\ events < MaxEvents
  /\ events' = events + 1
  /\ error' = ErrSync
  /\ UNCHANGED <<handles, posts, editing, isLoading, currentPage, store, now, tasks,
                 pendingChanges>>

\* ------------------------------------------------------------------ next
Next ==
  \/ Mount
  \/ \E s \in Slots : InitAfterInfo(s)
  \/ \E s \in Slots : FetchResume(s)
  \/ DismissError
  \/ \E form \in Forms : Submit(form)
  \/ \E s \in Slots : AddAfterPut(s)
  \/ \E s \in Slots : AddAfterFetch(s)
  \/ \E s \in Slots : UpdateAfterGet(s)
  \/ \E s \in Slots : UpdateAfterPut(s)
  \/ \E s \in Slots : UpdateAfterFetch(s)
  \/ \E post \in PostsShown : deletePost(post)
  \/ \E s \in Slots : DeleteAfterRemove(s)
  \/ \E s \in Slots : DeleteAfterFetch(s)
  \/ \E post \in PostsShown : startEditing(post)
  \/ cancelEditing
  \/ beforeUnmount
  \/ RepWrite
  \/ SyncChange
  \/ SyncDenied
  \/ SyncError

Spec == Init /\ [][Next]_vars

\* The view over a store that fills several pages: loading, paging, deleting.
NextPages ==
  \/ Mount
  \/ \E s \in Slots : InitAfterInfo(s)
  \/ \E s \in Slots : FetchResume(s)
  \/ ClickPrevious
  \/ ClickNext
  \/ \E post \in PostsShown : deletePost(post)
  \/ \E s \in Slots : DeleteAfterRemove(s)
  \/ \E s \in Slots : DeleteAfterFetch(s)

SpecPages == PagesInit /\ [][NextPages]_vars

\* The view loading its store, and changePage called with any page number.
NextChangePage ==
  \/ Mount
  \/ \E s \in Slots : InitAfterInfo(s)
  \/ \E s \in Slots : FetchResume(s)
  \/ CallChangePage

SpecChangePage == PagesInit /\ [][NextChangePage]_vars

\* Every store call that is pending is answered in the end.
FairSpec ==
  /\ Spec
  /\ WF_vars(\E s \in Slots : InitAfterInfo(s))
  /\ WF_vars(\E s \in Slots : FetchResume(s))

\* ================================================================ claims
NoForm == [title |-> Empty, content |-> Empty]

\* A form validation must reject: a title or a content that is empty after
\* trim, a title longer than 100 or a content longer than 1000.
InvalidForm(f) ==
  \/ ~Truthy(Trim(f.title)) \/ ~Truthy(Trim(f.content))
  \/ StrLen(f.title) > MaxTitleLen \/ StrLen(f.content) > MaxContentLen

Resumed(s) == tasks'[s] # tasks[s]

SameStore == store' = store

OthersKept(id) ==
  /\ DOMAIN store' = DOMAIN store \cup {id}
  /\ \A i \in DOMAIN store \ {id} : store'[i] = store[i]

\* C1: a submit of an invalid form (empty-after-trim title or content, title
\* longer than 100, content longer than 1000) issues no put in either mode:
\* addPost returns without a task and updatePost ends after its get, and the
\* store is the same after each of these steps as before.
C1_InvalidSubmitWritesNothing ==
  [][/\ \A form \in Forms :
          (~isEditing /\ InvalidForm(form) /\ Submit(form)) => (SameStore /\ tasks' = tasks)
     /\ \A s \in Slots :
          (isEditing /\ tasks[s].pc = "free" /\ tasks'[s].pc = "upd_get") => SameStore
     /\ \A s \in Slots :
          (tasks[s].pc = "upd_get" /\ InvalidForm(tasks[s].form) /\ Resumed(s))
            => (SameStore /\ tasks'[s] = Free)]_vars

\* C1 witness: validation has just rejected the prefilled title of 101
\* characters of a submit made while editing.
C1_Witness == isEditing /\ error = ErrTitleLen /\ StrLen(newPost.title) = MaxTitleLen + 1

C3_UpdateKeepsIdentity ==
  [][\A s \in Slots :
       (tasks[s].pc = "upd_get" /\ tasks'[s].pc = "upd_put" /\ tasks'[s].status = "ok")
         => LET id == tasks[s].id IN
            /\ Live(store, id) /\ Live(store', id)
            /\ tasks'[s].doc._id = id
            /\ store'[id].attributes.creation_date = store[id].attributes.creation_date
            /\ store'[id].attributes.modified >= store[id].attributes.modified
            /\ OthersKept(id)]_vars

\* C3 witness: an update has been written and its modified is later than its
\* creation_date.
C3_Witness ==
  \E s \in Slots : /\ tasks[s].pc = "upd_put" /\ tasks[s].status = "ok"
                   /\ Live(store, tasks[s].id)
                   /\ store[tasks[s].id].attributes.modified
                        > store[tasks[s].id].attributes.creation_date

\* C4: when addPost's put succeeds, a get of the generated id returns the
\* trimmed title and content of the form, with creation_date = modified.
C4_CreateThenGet ==
  [][\A s \in Slots :
       (tasks[s].pc = "free" /\ tasks'[s].pc = "add_put" /\ tasks'[s].status = "ok")
         => LET d == StoreGet(store', tasks'[s].id) IN
            /\ GetStatus(store', tasks'[s].id) = "ok"
            /\ d.title = Trim(newPost'.title)
            /\ d.content = Trim(newPost'.content)
            /\ d.attributes.creation_date = d.attributes.modified]_vars

\* C5: when a store call of the view has failed, the step that ends the
\* enclosing action leaves error non-null, and the call is not issued again.
C5_FailureLeavesError ==
  [][/\ \A s \in Slots :
          (Failed(tasks[s]) /\ Resumed(s)) => (error' # Null /\ tasks'[s] = Free)
     /\ \A s \in Slots :
          (tasks[s].pc = "init_info" /\ tasks'[s] = Free) => error' # Null]_vars

\* C6: if the document was written after startEditing read its revision, the
\* put of the submit is refused, the store keeps the intervening version and
\* error is set when updatePost ends.
C6_NoLostUpdate ==
  [][/\ \A s \in Slots :
          (/\ tasks[s].pc = "upd_get" /\ tasks'[s].pc = "upd_put"
           /\ Slot(store, tasks[s].id).rev # tasks[s].baseRev)
            => (tasks'[s].status = "Conflict" /\ SameStore)
     /\ \A s \in Slots :
          (tasks[s].pc = "upd_put" /\ Failed(tasks[s]) /\ Resumed(s))
            => error' # Null]_vars

\* C7: when updatePost's put succeeded the view leaves editing with an empty
\* form; when updatePost ends on a validation failure, NotFound, Conflict or
\* another failure, isEditing, currentEditId and the form are as before and
\* error is set; no step of addPost changes isEditing.
C7_SubmitOutcome ==
  [][/\ \A s \in Slots :
          (tasks[s].pc = "upd_put" /\ ~Failed(tasks[s]) /\ Resumed(s))
            => (~isEditing' /\ currentEditId' = NoId /\ newPost' = NoForm)
     /\ \A s \in Slots :
          (tasks[s].pc \in {"upd_get", "upd_put"} /\ tasks'[s] = Free)
            => (/\ isEditing' = isEditing /\ currentEditId' = currentEditId
                /\ newPost' = newPost /\ error' # Null)
     /\ \A s \in Slots :
          ((tasks[s].pc \in {"add_put", "add_fetch"} \/ tasks'[s].pc = "add_put")
           /\ Resumed(s))
            => (isEditing' = isEditing /\ currentEditId' = currentEditId)]_vars

\* C7 witness: a submit made while editing was refused with Conflict and the
\* view is still editing the same document with the form it submitted.
C7_Witness ==
  /\ isEditing /\ error = ErrUpdate /\ currentEditId = RemoteId
  /\ Truthy(newPost.title)
  /\ Live(store, RemoteId) /\ store[RemoteId].rev > editRev
  /\ \A s \in Slots : tasks[s].pc = "free"

\* C8: once error holds the access-denied message, it holds it after every
\* step that is neither the user's dismissal nor the teardown, and the view
\* starts no second session.
C8_DeniedPersists ==
  [][/\ (error = ErrDenied /\ ~DismissError /\ ~beforeUnmount) => error' = ErrDenied
     /\ sync # "null" => sync' # "live" \/ sync = "live"]_vars

\* C9: once beforeUnmount has run, no session is live and both handles are
\* closed.
C9_TeardownStopsAll ==
  phase = "unmounted" => (sync # "live" /\ localDb = "closed" /\ remoteDb = "closed")

RECURSIVE PagesUpTo(_)
PagesUpTo(n) == IF n = 0 THEN <<>> ELSE PagesUpTo(n - 1) \o PageOf(n)

\* C10: totalPages is the least number of pages of pageSize that hold all the
\* posts, and the pages 1..totalPages, put end to end, hold every post once,
\* newest creation_date first.
C10_PagesCoverSorted ==
  LET all == PagesUpTo(totalPages) IN
  /\ totalPages * pageSize >= Len(posts)
  /\ (totalPages - 1) * pageSize < Len(posts)
  /\ Len(all) = Len(posts)
  /\ \A i \in DOMAIN posts : \E j \in DOMAIN all : all[j] = posts[i]
  /\ \A i \in DOMAIN all : \A j \in DOMAIN all :
       i < j => all[i].attributes.creation_date >= all[j].attributes.creation_date

\* C10 witness: three pages, the last one shown, with posts out of order.
C10_Witness ==
  /\ totalPages = 3 /\ currentPage = 3 /\ Len(paginatedPosts) >= 1
  /\ \E i \in DOMAIN posts : \E j \in DOMAIN posts :
       i < j /\ posts[i].attributes.creation_date < posts[j].attributes.creation_date

\* C11: changePage(p) with p below 1 or above totalPages changes nothing; with
\* p from 1 to totalPages it sets currentPage to p and changes nothing else; it
\* starts no task and touches no document.
C11_ChangePageFrame ==
  [][\A page \in 0..(totalPages + 1) :
       changePage(page) =>
         /\ currentPage' = IF 1 <= page /\ page <= totalPages THEN page ELSE currentPage
         /\ (page < 1 \/ page > totalPages) => UNCHANGED vars
         /\ tasks' = tasks /\ SameStore /\ posts' = posts /\ error' = error
         /\ isLoading' = isLoading /\ UNCHANGED editing]_vars

\* C11 witness: changePage has put the view on the second of two pages.
C11_Witness == totalPages = 2 /\ currentPage = 2 /\ \A s \in Slots : tasks[s].pc = "free"

\* C12: a submit that validation rejects, in create mode or while editing,
\* leaves error non-null when it returns.
C12_RejectionSetsError ==
  [][/\ \A form \in Forms :
          (~isEditing /\ InvalidForm(form) /\ Submit(form)) => error' # Null
     /\ \A s \in Slots :
          (tasks[s].pc = "upd_get" /\ ~Failed(tasks[s]) /\ InvalidForm(tasks[s].form)
           /\ Resumed(s))
            => error' # Null]_vars

\* C13: the probe is issued once, by mounted; the session starts only in the
\* step that continues initDatabases after the probe succeeded; when the
\* probe fails, error is the initialization message and no session exists,
\* and a view whose probe is over without a session never gets one.
C13_ProbeThenSync ==
  [][/\ \A s \in Slots :
          (tasks[s].pc # "init_info" /\ tasks'[s].pc = "init_info")
            => (phase = "created" /\ \A t \in Slots : tasks[t].pc # "init_info")
     /\ (sync # "live" /\ sync' = "live")
          => \E s \in Slots : tasks[s].pc = "init_info" /\ tasks'[s].pc = "init_fetch"
     /\ \A s \in Slots :
          (tasks[s].pc = "init_info" /\ tasks'[s] = Free)
            => (error' = ErrInit /\ sync' = "null")
     /\ (phase # "created" /\ sync = "null" /\ \A s \in Slots : tasks[s].pc # "init_info")
          => sync' = "null"]_vars

\* C13 witness: the probe has failed, and the run went on to its last event
\* without a session.
C13_Witness ==
  /\ phase = "mounted" /\ sync = "null" /\ events = MaxEvents
  /\ \A s \in Slots : tasks[s].pc = "free"

\* C14: an initDatabases that waits for the probe gets to its fetchPosts in
\* the end, provided every pending store call is answered.
C14_InitialFetch ==
  (\E s \in Slots : tasks[s].pc = "init_info")
    ~> (\E s \in Slots : tasks[s].pc = "init_fetch")

\* A document with texts that are non-empty and within the limits after trim,
\* and creation_date <= modified.
ValidDoc(d) ==
  /\ Truthy(Trim(d.title)) /\ Truthy(Trim(d.content))
  /\ StrLen(Trim(d.title)) <= MaxTitleLen
  /\ StrLen(Trim(d.content)) <= MaxContentLen
  /\ d.attributes.creation_date <= d.attributes.modified

\* C15: the document a successful addPost writes is valid (texts non-empty and
\* within 100 and 1000 characters after trim, creation_date <= modified), and
\* a successful updatePost of a valid document writes a valid document.
C15_CreatedDocsStayValid ==
  [][/\ \A s \in Slots :
          (tasks[s].pc = "free" /\ tasks'[s].pc = "add_put" /\ tasks'[s].status = "ok")
            => ValidDoc(store'[tasks'[s].id])
     /\ \A s \in Slots :
          (/\ tasks[s].pc = "upd_get" /\ tasks'[s].pc = "upd_put"
           /\ tasks'[s].status = "ok" /\ ValidDoc(store[tasks[s].id]))
            => ValidDoc(store'[tasks[s].id])]_vars

\* C15 witness: a document this run created with addPost has been updated.
C15_Witness ==
  \E s \in Slots : /\ tasks[s].pc = "upd_put" /\ tasks[s].status = "ok"
                   /\ tasks[s].id >= 1 /\ Live(store, tasks[s].id)

\* C16: an addPost whose generated id is the id of a live document is refused
\* (Conflict) and changes no document; when addPost ends on a refused put,
\* error is the add message and the form keeps its texts; no id ever leaves
\* the store.
C16_CreateNeverOverwrites ==
  [][/\ \A s \in Slots :
          (tasks[s].pc = "free" /\ tasks'[s].pc = "add_put" /\ Live(store, tasks'[s].id))
            => (/\ PutStatus(store, tasks'[s].form) = "Conflict"
                /\ tasks'[s].status # "ok"
                /\ SameStore)
     /\ \A s \in Slots :
          (tasks[s].pc = "add_put" /\ Failed(tasks[s]) /\ Resumed(s))
            => (error' = ErrAdd /\ newPost' = newPost /\ SameStore)
     /\ DOMAIN store \subseteq DOMAIN store']_vars

\* C16 witness: a second create within one tick of the clock was answered
\* Conflict and the first document is still in the store.
C16_Witness ==
  \E s \in Slots : /\ tasks[s].pc = "add_put" /\ tasks[s].status = "Conflict"
                   /\ tasks[s].id >= 1 /\ Live(store, tasks[s].id)

\* C17: at most one put or remove of the view is waiting for its answer.
C17_OneMutationInFlight ==
  Cardinality({s \in Slots : tasks[s].pc \in {"add_put", "upd_put", "del_remove"}}) <= 1

FetchPcs == {"init_fetch", "chg_fetch", "add_fetch", "upd_fetch", "del_fetch"}

\* C18: when a fetch that did not fail completes and leaves no operation of
\* the view in flight and no change event unhandled, posts is the list of the
\* documents of the local store.
C18_PostsMirrorStore ==
  [][\A s \in Slots :
       (/\ tasks[s].pc \in FetchPcs /\ tasks[s].status = "ok" /\ Resumed(s)
        /\ \A t \in Slots : tasks'[t].pc = "free"
        /\ pendingChanges' = 0)
         => posts' = AllDocs(store')]_vars

\* C19: while a document is being edited, the completion of an updatePost
\* issued for another document leaves isEditing, currentEditId and the form
\* as they are.
C19_EditSessionKept ==
  [][\A s \in Slots :
       (/\ tasks[s].pc \in {"upd_get", "upd_put", "upd_fetch"} /\ Resumed(s)
        /\ isEditing /\ currentEditId # tasks[s].id)
         => (isEditing' /\ currentEditId' = currentEditId /\ newPost' = newPost)]_vars

\* C20: currentPage is at least 1 and at most max(1, totalPages), and the page
\* shown is empty only when posts is empty.
C20_CurrentPageInRange ==
  /\ currentPage >= 1
  /\ currentPage <= (IF totalPages > 1 THEN totalPages ELSE 1)
  /\ (paginatedPosts = <<>>) => (posts = <<>>)

====
